---- MODULE Spec2Model ----
(***************************************************************************)
(* SwarmSubstrate (swarm-core/src/lib.rs): the particle population, the    *)
(* grid-based assignment of particles to text coordinates, the per-frame   *)
(* physics step and the render buffer export.                              *)
(*                                                                         *)
(* Numbers.  The program computes in f32.  Here every length and velocity  *)
(* is an integer count of 1/Scale world units, friction and ease are       *)
(* hundredths, attraction_strength is tenths, the clock is hundredths of a *)
(* time unit, and every product or quotient is truncated toward zero.      *)
(* Infinities, NaN and f32 rounding error are outside the model.           *)
(***************************************************************************)
EXTENDS Integers, Sequences, FiniteSets

VARIABLES particles, text_coords, render_buffer, width, height,
          mouse_x, mouse_y, mouse_active, time, steps, calls

vars == <<particles, text_coords, render_buffer, width, height,
          mouse_x, mouse_y, mouse_active, time, steps, calls>>

\* ---------------------------------------------------------------- bounds
\* Resolution of the fixed-point grid: lengths are counted in 1/Scale units.
Scale == 10
\* particle_count arguments tried by the constructor: 1..MaxParticles.
MaxParticles == 2
\* Longest flattened coordinate array handed to set_text_coords.
MaxFlatLen == 6
\* Number of calls made on the substrate after new().
MaxCalls == 3

\* ------------------------------------------------------- program constants
GridSize == 50
MouseRadius == 150
\* self.time += 0.02, in hundredths
TimeStep == 2

\* ------------------------------------------------------------ arithmetic
Abs(a) == IF a < 0 THEN -a ELSE a

Sgn(a) == IF a < 0 THEN -1 ELSE IF a > 0 THEN 1 ELSE 0

\* Quotient truncated toward zero (b > 0), as `as i32` truncates.
TruncDiv(a, b) == IF a >= 0 THEN a \div b ELSE -((-a) \div b)

RECURSIVE IsqrtIn(_, _, _)
IsqrtIn(n, lo, hi) ==
    IF lo >= hi THEN lo
    ELSE LET mid == (lo + hi + 1) \div 2
         IN IF mid * mid <= n THEN IsqrtIn(n, mid, hi) ELSE IsqrtIn(n, lo, mid - 1)

\* floor(sqrt(n)) for 0 <= n <= bound * bound
Isqrt(n, bound) == IsqrtIn(n, 0, bound)

\* sin of an angle given in milliradians, in thousandths (Bhaskara's rational
\* approximation on each half period).
SinMilli(a) ==
    LET r    == a % 6283
        x    == IF r <= 3142 THEN r ELSE r - 3142
        x2   == IF x > 3142 THEN 3142 ELSE x
        p    == x2 * (3142 - x2)
        half == (16 * p) \div ((5 * 3142 * 3142 - 4 * p) \div 1000)
    IN IF r <= 3142 THEN half ELSE -half

\* ------------------------------------------------------------ population
ParticleTypes == {"Scout", "Anchor", "Drifter"}

\* The per-type constants of new(), with one draw of each random range:
\* max_speed, attraction_strength (tenths), size, friction and ease (hundredths).
TypeParams(t) ==
    CASE t = "Scout"   -> [max_speed |-> 6 * Scale, attraction_strength |-> 15,
                           size |-> Scale, friction |-> 96, ease |-> 15]
      [] t = "Anchor"  -> [max_speed |-> 4 * Scale, attraction_strength |-> 18,
                           size |-> 2 * Scale, friction |-> 95, ease |-> 10]
      [] t = "Drifter" -> [max_speed |-> 5 * Scale, attraction_strength |-> 8,
                           size |-> 3 * Scale, friction |-> 93, ease |-> 12]

\* Arguments of new(): the viewport, in world units.
InitSize == <<200, 100>>

NewParticle(t, x, y, vx, vy) ==
    LET c == TypeParams(t)
    IN [x |-> x, y |-> y, vx |-> vx, vy |-> vy,
        target_x |-> x, target_y |-> y, is_forming |-> FALSE,
        size |-> c.size, friction |-> c.friction, ease |-> c.ease,
        max_speed |-> c.max_speed, attraction_strength |-> c.attraction_strength,
        particle_type |-> t]

\* Draws of one particle: its type, x = rng.gen() * width and y = rng.gen() *
\* height (in [0, width) and [0, height), world units), and vx, vy =
\* (rng.gen() - 0.5) * 2.0 (in [-1, 1), counted in 1/Scale).
ParticleDraws ==
    { NewParticle("Scout", 0, 30 * Scale, -(Scale - 1), 0),
      NewParticle("Anchor", 120 * Scale, 30 * Scale, Scale \div 2, 0),
      NewParticle("Drifter", 60 * Scale, 0, 0, -(Scale - 1)) }

Zeros(n) == [k \in 1..n |-> 0]

Init ==
    /\ \E n \in 1..MaxParticles : particles \in [1..n -> ParticleDraws]
    /\ text_coords = <<>>
    /\ render_buffer = Zeros(4 * Len(particles))
    /\ width = InitSize[1] * Scale
    /\ height = InitSize[2] * Scale
    /\ mouse_x = 0
    /\ mouse_y = 0
    /\ mouse_active = FALSE
    /\ time = 0
    /\ steps = 0
    /\ calls = 0

\* One more call on the substrate (steps counts the step() calls among them).
Call == calls < MaxCalls /\ calls' = calls + 1

\* ------------------------------------------------------------ assignment
\* set_text_coords: coords.chunks(2), a trailing single value dropped.
Chunks(flat) == [k \in 1..(Len(flat) \div 2) |-> <<flat[2 * k - 1], flat[2 * k]>>]

\* ((x / grid_size) as i32): the quotient truncated toward zero.
CellKey(v) == TruncDiv(v, GridSize * Scale)

\* (p.x - cx).powi(2) + (p.y - cy).powi(2)
Dist(p, c) == (p.x - c[1]) * (p.x - c[1]) + (p.y - c[2]) * (p.y - c[2])

\* Unused targets whose cell is one of the 5 x 5 cells (gx + dx, gy + dy).
NearbyUnused(p, tc, used) ==
    { j \in (1..Len(tc)) \ used :
        /\ Abs(CellKey(tc[j][1]) - CellKey(p.x)) <= 2
        /\ Abs(CellKey(tc[j][2]) - CellKey(p.y)) <= 2 }

\* The order the search meets j and k in: dx outermost, then dy, then the
\* index within the cell.
MetBefore(tc, j, k) ==
    LET jx == CellKey(tc[j][1])  jy == CellKey(tc[j][2])
        kx == CellKey(tc[k][1])  ky == CellKey(tc[k][2])
    IN \/ jx < kx
       \/ jx = kx /\ jy < ky
       \/ jx = kx /\ jy = ky /\ j <= k

\* best_idx of the first pass (0 for None): `dist < best_dist` keeps the first
\* minimum met.
BestIdx(p, tc, used) ==
    LET cands == NearbyUnused(p, tc, used)
    IN IF cands = {} THEN 0
       ELSE CHOOSE j \in cands :
              \A k \in cands :
                 \/ Dist(p, tc[j]) < Dist(p, tc[k])
                 \/ Dist(p, tc[j]) = Dist(p, tc[k]) /\ MetBefore(tc, j, k)

SetTarget(p, c) == [p EXCEPT !.target_x = c[1], !.target_y = c[2], !.is_forming = TRUE]

\* The first pass from particle i on; st = [ps, used, best], best[k] the
\* best_idx found for particle k (0 for none, or for a particle not searched).
RECURSIVE FirstPassFrom(_, _, _, _)
FirstPassFrom(st, tc, i, num_to_assign) ==
    IF i > Len(st.ps) THEN st
    ELSE IF i > num_to_assign
    THEN FirstPassFrom([st EXCEPT !.ps[i].is_forming = FALSE], tc, i + 1, num_to_assign)
    ELSE LET b == BestIdx(st.ps[i], tc, st.used)
         IN IF b = 0
            THEN FirstPassFrom(st, tc, i + 1, num_to_assign)
            ELSE FirstPassFrom([ps   |-> [st.ps EXCEPT ![i] = SetTarget(@, tc[b])],
                                used |-> st.used \cup {b},
                                best |-> [st.best EXCEPT ![i] = b]],
                               tc, i + 1, num_to_assign)

Min(a, b) == IF a < b THEN a ELSE b

FirstPass(ps, tc) ==
    FirstPassFrom([ps |-> ps, used |-> {}, best |-> [k \in 1..Len(ps) |-> 0]],
                  tc, 1, Min(Len(ps), Len(tc)))

\* while unused_idx < num_coords && used_coords.contains(&unused_idx)
RECURSIVE SkipUsed(_, _, _)
SkipUsed(u, used, num_coords) ==
    IF u <= num_coords /\ u \in used THEN SkipUsed(u + 1, used, num_coords) ELSE u

\* The second pass from particle i on; st = [ps, used, unused_idx].
RECURSIVE SecondPassFrom(_, _, _, _)
SecondPassFrom(st, tc, i, num_to_assign) ==
    IF i > Len(st.ps) THEN st
    ELSE IF st.ps[i].is_forming \/ i > num_to_assign
    THEN SecondPassFrom(st, tc, i + 1, num_to_assign)
    ELSE LET u == SkipUsed(st.unused_idx, st.used, Len(tc))
         IN IF u <= Len(tc)
            THEN SecondPassFrom([ps         |-> [st.ps EXCEPT ![i] = SetTarget(@, tc[u])],
                                 used       |-> st.used \cup {u},
                                 unused_idx |-> u + 1],
                                tc, i + 1, num_to_assign)
            ELSE SecondPassFrom([st EXCEPT !.ps[i].is_forming = FALSE, !.unused_idx = u],
                                tc, i + 1, num_to_assign)

SecondPass(ps, used, tc) ==
    SecondPassFrom([ps |-> ps, used |-> used, unused_idx |-> 1],
                   tc, 1, Min(Len(ps), Len(tc))).ps

\* AssignParticlesToText with the empty-set branch returning at once, the
\* is_forming flags left as they were.
AssignParticlesToText_EmptyKeeps(ps, tc) ==
    IF Len(tc) = 0
    THEN ps
    ELSE LET first == FirstPass(ps, tc)
         IN SecondPass(first.ps, first.used, tc)

AssignParticlesToText(ps, tc) ==
    IF Len(tc) = 0
    THEN [k \in 1..Len(ps) |-> [ps[k] EXCEPT !.is_forming = FALSE]]
    ELSE LET first == FirstPass(ps, tc)
         IN SecondPass(first.ps, first.used, tc)

\* Target points a caller passes (world units): one at negative coordinates
\* next to the origin, one far from every initial particle, one far on x only.
NearPoint == <<-10 * Scale, -10 * Scale>>
FarPoint == <<190 * Scale, 190 * Scale>>
SidePoint == <<190 * Scale, -10 * Scale>>

Flatten(pts) == [k \in 1..(2 * Len(pts)) |-> pts[(k + 1) \div 2][2 - (k % 2)]]

\* The flattened arrays tried: up to MaxFlatLen values, an odd one among them.
FlatInputs ==
    { f \in { <<>>,
              Flatten(<<NearPoint>>), Flatten(<<FarPoint>>), Flatten(<<SidePoint>>),
              Flatten(<<NearPoint>>) \o <<FarPoint[1]>>,
              Flatten(<<FarPoint, NearPoint>>), Flatten(<<NearPoint, NearPoint>>),
              Flatten(<<SidePoint, FarPoint>>),
              Flatten(<<FarPoint, SidePoint, NearPoint>>),
              Flatten(<<SidePoint, NearPoint, FarPoint>>) \o <<NearPoint[1]>> } :
        Len(f) <= MaxFlatLen }

\* NewTextCoords without the clear(): the pairs are pushed after the old ones.
NewTextCoords_NoClear(old, flat) == old \o Chunks(flat)

\* self.text_coords.clear(), then one push per whole chunk.
NewTextCoords(old, flat) == Chunks(flat)

SetTextCoords ==
    \E flat \in FlatInputs :
        /\ Call
        /\ text_coords' = NewTextCoords(text_coords, flat)
        /\ particles' = AssignParticlesToText(particles, NewTextCoords(text_coords, flat))
        /\ UNCHANGED <<render_buffer, width, height, mouse_x, mouse_y,
                       mouse_active, time, steps>>

\* ----------------------------------------------------------- set_mouse, resize
MouseInputs == { <<10 * Scale, 30 * Scale, TRUE>>, <<0, 0, FALSE>> }

SetMouse ==
    \E m \in MouseInputs :
        /\ Call
        /\ mouse_x' = m[1]
        /\ mouse_y' = m[2]
        /\ mouse_active' = m[3]
        /\ UNCHANGED <<particles, text_coords, render_buffer, width, height, time, steps>>

ResizeInputs == { InitSize, <<100, 20>> }

Resize ==
    \E s \in ResizeInputs :
        /\ Call
        /\ width' = s[1] * Scale
        /\ height' = s[2] * Scale
        /\ UNCHANGED <<particles, text_coords, render_buffer, mouse_x, mouse_y,
                       mouse_active, time, steps>>

\* ------------------------------------------------------------------ step
\* Mouse repulsion on one axis: -cos(angle) * force * 5.0 (or -sin(angle) ...),
\* where cos(angle) = mdx / dist and force = (mouse_radius - dist) / mouse_radius.
\* `along` is mdx for force_x and mdy for force_y.
MouseForce(p, mx, my, active, along) ==
    LET mdx == mx - p.x
        mdy == my - p.y
        d2  == mdx * mdx + mdy * mdy
        r   == MouseRadius * Scale
    IN IF active /\ d2 < r * r /\ d2 > 0
       THEN LET dist == Isqrt(d2, r)
            IN -TruncDiv(along * (r - dist) * 5 * Scale, dist * r)
       ELSE 0

\* (self.time + p.y * 0.05).sin() * 2.0
Breathing(p, t) == TruncDiv(SinMilli(t * 10 + TruncDiv(p.y * 50, Scale)) * 2 * Scale, 1000)

\* p.vx += (ddx * p.ease * p.attraction_strength + force_x) * 0.1
Attract(p, v, dd, force) ==
    v + TruncDiv(TruncDiv(dd * p.ease * p.attraction_strength, 1000) + force, 10)

\* p.x < 0.0 || p.x > self.width (and the same for y and height)
Outside(pos, limit) == pos < 0 \/ pos > limit

\* p.vx += force_x * 0.5, then the boundary bounce on that axis.
Float(v, force, pos, limit) ==
    LET v1 == v + TruncDiv(force, 2)
    IN IF Outside(pos, limit) THEN -v1 ELSE v1

\* p.vx *= p.friction
Friction(p, v) == TruncDiv(v * p.friction, 100)

\* Clamp with each axis limited to max_speed on its own.
Clamp_PerAxis(v, vx, vy, max_speed) ==
    IF Abs(v) > max_speed THEN Sgn(v) * max_speed ELSE v

\* One component of the clamped velocity: (v / speed) * max_speed when
\* speed > max_speed, where speed = sqrt(vx * vx + vy * vy).
Clamp(v, vx, vy, max_speed) ==
    LET s2 == vx * vx + vy * vy
    IN IF s2 > max_speed * max_speed
       THEN Sgn(v) * Isqrt(((v * max_speed) * (v * max_speed)) \div s2, max_speed)
       ELSE v

\* StepParticle with the breathing offset added into the particle's own
\* target instead of a local copy of it.
StepParticle_BreathingStored(p, t, mx, my, active, w, h) ==
    LET force_x == MouseForce(p, mx, my, active, mx - p.x)
        force_y == MouseForce(p, mx, my, active, my - p.y)
        b   == Breathing(p, t)
        vx1 == IF p.is_forming
               THEN Attract(p, p.vx, p.target_x + b - p.x, force_x)
               ELSE Float(p.vx, force_x, p.x, w)
        vy1 == IF p.is_forming
               THEN Attract(p, p.vy, p.target_y + b - p.y, force_y)
               ELSE Float(p.vy, force_y, p.y, h)
        vx2 == Friction(p, vx1)
        vy2 == Friction(p, vy1)
        vx3 == Clamp(vx2, vx2, vy2, p.max_speed)
        vy3 == Clamp(vy2, vx2, vy2, p.max_speed)
    IN [p EXCEPT !.vx = vx3, !.vy = vy3, !.x = p.x + vx3, !.y = p.y + vy3,
                 !.target_x = IF p.is_forming THEN p.target_x + b ELSE p.target_x,
                 !.target_y = IF p.is_forming THEN p.target_y + b ELSE p.target_y]

\* The body of `for p in &mut self.particles`, t the clock after `+= 0.02`.
StepParticle(p, t, mx, my, active, w, h) ==
    LET force_x == MouseForce(p, mx, my, active, mx - p.x)
        force_y == MouseForce(p, mx, my, active, my - p.y)
        b   == Breathing(p, t)
        vx1 == IF p.is_forming
               THEN Attract(p, p.vx, p.target_x + b - p.x, force_x)
               ELSE Float(p.vx, force_x, p.x, w)
        vy1 == IF p.is_forming
               THEN Attract(p, p.vy, p.target_y + b - p.y, force_y)
               ELSE Float(p.vy, force_y, p.y, h)
        vx2 == Friction(p, vx1)
        vy2 == Friction(p, vy1)
        vx3 == Clamp(vx2, vx2, vy2, p.max_speed)
        vy3 == Clamp(vy2, vx2, vy2, p.max_speed)
    IN [p EXCEPT !.vx = vx3, !.vy = vy3, !.x = p.x + vx3, !.y = p.y + vy3]

\* step() with the clock set to t.
StepTo(t) ==
    /\ time' = t
    /\ particles' = [k \in 1..Len(particles) |->
                       StepParticle(particles[k], t, mouse_x, mouse_y, mouse_active,
                                    width, height)]
    /\ UNCHANGED <<text_coords, render_buffer, width, height, mouse_x, mouse_y,
                   mouse_active>>

\* Step with the clock advanced inside the particle loop, once per particle.
Step_TickPerParticle ==
    /\ Call
    /\ steps' = steps + 1
    /\ StepTo(time + TimeStep * Len(particles))

Step ==
    /\ Call
    /\ steps' = steps + 1
    /\ StepTo(time + TimeStep)

\* step() called again and again: the counters are held once calls reaches
\* MaxCalls (no floating particle's motion reads the clock).
StepHeld ==
    /\ calls' = IF calls < MaxCalls THEN calls + 1 ELSE calls
    /\ steps' = IF calls < MaxCalls THEN steps + 1 ELSE steps
    /\ StepTo(IF calls < MaxCalls THEN time + TimeStep ELSE time)

\* --------------------------------------------------------- render export
\* RenderValue with the bounds test one too strict (idx + 4 < len): the last
\* particle is never written.
RenderValue_LastSkipped(buf, ps, k) ==
    LET i   == (k - 1) \div 4 + 1
        idx == 4 * (i - 1)
        f   == (k - 1) % 4
    IN IF i <= Len(ps) /\ idx + 4 < Len(buf)
       THEN CASE f = 0 -> ps[i].x
              [] f = 1 -> ps[i].y
              [] f = 2 -> ps[i].size
              [] f = 3 -> IF ps[i].is_forming THEN 1 ELSE 0
       ELSE buf[k]

\* The value update_render_buffer writes at (1-based) place k, or the old value
\* where `idx + 3 < self.render_buffer.len()` fails.
RenderValue(buf, ps, k) ==
    LET i   == (k - 1) \div 4 + 1
        idx == 4 * (i - 1)
        f   == (k - 1) % 4
    IN IF i <= Len(ps) /\ idx + 3 < Len(buf)
       THEN CASE f = 0 -> ps[i].x
              [] f = 1 -> ps[i].y
              [] f = 2 -> ps[i].size
              [] f = 3 -> IF ps[i].is_forming THEN 1 ELSE 0
       ELSE buf[k]

UpdateRenderBuffer ==
    /\ Call
    /\ render_buffer' = [k \in 1..Len(render_buffer) |->
                           RenderValue(render_buffer, particles, k)]
    /\ UNCHANGED <<particles, text_coords, width, height, mouse_x, mouse_y,
                   mouse_active, time, steps>>

\* particle_count()
N == Len(particles)

\* The particles get_stats counts as forming.
Forming == {k \in 1..N : particles[k].is_forming}

\* get_stats: particles, forming, floating, text_coords (a read-only accessor).
GetStats == <<N, Cardinality(Forming), N - Cardinality(Forming), Len(text_coords)>>

\* ----------------------------------------------------------- specification
Next ==
    \/ SetTextCoords
    \/ SetMouse
    \/ Resize
    \/ Step
    \/ UpdateRenderBuffer

Spec == Init /\ [][Next]_vars

\* The host's animation loop alone: step() every frame, forever.
LiveSpec == Init /\ [][StepHeld]_vars /\ WF_vars(StepHeld)

\* ------------------------------------------------------------ properties
Target(p) == <<p.target_x, p.target_y>>

\* What the assignment engine writes: each particle's target and is_forming.
AssignmentOf(ps) == [k \in 1..Len(ps) |-> <<ps[k].target_x, ps[k].target_y, ps[k].is_forming>>]

\* C1: with a non-empty target set of at least particleCount points, every
\* particle is forming and the particles hold pairwise different indices of
\* text_coords (text_coords and the assignment change only in set_text_coords,
\* so every state shows the outcome of the latest call).
C1_AllFormingInjective ==
    (Len(text_coords) >= 1 /\ Len(text_coords) >= N) =>
        /\ Forming = 1..N
        /\ \E f \in [1..N -> 1..Len(text_coords)] :
              /\ \A i, j \in 1..N : i # j => f[i] # f[j]
              /\ \A i \in 1..N : Target(particles[i]) = text_coords[f[i]]

\* C2: every forming particle's target is a point of the current target set.
C2_FormingTargetsInSet ==
    \A i \in Forming : \E j \in 1..Len(text_coords) : Target(particles[i]) = text_coords[j]

\* C3: with fewer targets than particles, exactly targetCount particles are
\* forming (none when the set is empty).
C3_FormingCount ==
    Len(text_coords) < N => Cardinality(Forming) = Len(text_coords)

C3_Witness ==
    /\ N = 2
    /\ Len(text_coords) = 1
    /\ Cardinality(Forming) = 1
    /\ calls >= 2

\* C4: from any reachable state, a second set_text_coords with the same array,
\* with no step between, leaves every target and is_forming flag as the first
\* call left them.
C4_Idempotent ==
    \A flat \in FlatInputs :
        \A tc1 \in {NewTextCoords(text_coords, flat)} :
            \A ps1 \in {AssignParticlesToText(particles, tc1)} :
                \A tc2 \in {NewTextCoords(tc1, flat)} :
                    AssignmentOf(AssignParticlesToText(ps1, tc2)) = AssignmentOf(ps1)

\* A state right after a call (no step() made yet) that left a particle
\* forming; making the same call again changes nothing.
C4_Witness ==
    /\ steps = 0
    /\ calls >= 2
    /\ Forming # {}
    /\ AssignmentOf(AssignParticlesToText(particles, NewTextCoords(text_coords, Flatten(text_coords))))
         = AssignmentOf(particles)

OutsideX(p) == Outside(p.x, width)
OutsideY(p) == Outside(p.y, height)

\* C5: a floating particle outside the viewport on an axis, the pointer
\* inactive, is eventually back inside on that axis as step() is repeated.
C5_EventuallyInside ==
    \A i \in 1..MaxParticles :
        /\ (i <= N /\ ~particles[i].is_forming /\ ~mouse_active /\ OutsideX(particles[i]))
              ~> (i <= N /\ ~OutsideX(particles[i]))
        /\ (i <= N /\ ~particles[i].is_forming /\ ~mouse_active /\ OutsideY(particles[i]))
              ~> (i <= N /\ ~OutsideY(particles[i]))

BufferMatches ==
    /\ Len(render_buffer) = 4 * N
    /\ \A i \in 1..N :
          /\ render_buffer[4 * i - 3] = particles[i].x
          /\ render_buffer[4 * i - 2] = particles[i].y
          /\ render_buffer[4 * i - 1] = particles[i].size
          /\ render_buffer[4 * i] = (IF particles[i].is_forming THEN 1 ELSE 0)

\* C6: update_render_buffer leaves a buffer of 4 * particleCount values that
\* holds every particle's current (x, y, size, formingFlag).
C6_ExportMatches == [][UpdateRenderBuffer => BufferMatches']_vars

\* After set_text_coords, step(), update_render_buffer().
C6_Witness ==
    /\ steps >= 1
    /\ Forming # {}
    /\ \E i \in 1..N : particles[i].x # particles[i].target_x /\ render_buffer[4 * i] = 1
    /\ BufferMatches

\* C7: every particle's speed is at most its max_speed.
C7_SpeedClamp ==
    \A i \in 1..N :
        particles[i].vx * particles[i].vx + particles[i].vy * particles[i].vy
            <= particles[i].max_speed * particles[i].max_speed

\* A particle that step() left at (within rounding of) its max_speed.
C7_Witness ==
    /\ steps >= 1
    /\ \E i \in 1..N :
          particles[i].vx * particles[i].vx + particles[i].vy * particles[i].vy
              > (particles[i].max_speed - 2) * (particles[i].max_speed - 2)

\* C8: the clock is the increment times the number of step() calls made, and
\* each call on the substrate either is a step() adding one increment or
\* leaves the clock alone.
C8_ClockCountsSteps ==
    [][/\ time = TimeStep * steps
       /\ time' = TimeStep * steps'
       /\ Step => time' = time + TimeStep
       /\ (SetTextCoords \/ SetMouse \/ Resize \/ UpdateRenderBuffer) => time' = time]_vars

C8_Witness ==
    /\ steps = 2
    /\ calls = 3
    /\ time = 2 * TimeStep

\* floor(v / cell): the cell key the grid index is specified with.
FloorKey(v) == v \div (GridSize * Scale)

\* Targets not in `used` whose floor-keyed cell is in the 5 x 5 block centred on
\* the particle's floor-keyed cell.
FloorNearbyUnused(p, tc, used) ==
    { j \in (1..Len(tc)) \ used :
        /\ Abs(FloorKey(tc[j][1]) - FloorKey(p.x)) <= 2
        /\ Abs(FloorKey(tc[j][2]) - FloorKey(p.y)) <= 2 }

\* C9: in the first pass of any call, each eligible particle gets a nearest
\* unused target of its floor-keyed 5 x 5 block, and none if that block holds
\* no unused target.
C9_FirstPassFloorKeyed ==
    \A flat \in FlatInputs :
        \A tc \in {NewTextCoords(text_coords, flat)} :
        \A best \in {FirstPass(particles, tc).best} :
           \A i \in 1..Min(N, Len(tc)) :
              LET used  == {best[k] : k \in 1..(i - 1)} \ {0}
                  cands == FloorNearbyUnused(particles[i], tc, used)
              IN IF cands = {}
                 THEN best[i] = 0
                 ELSE /\ best[i] \in cands
                      /\ \A k \in cands :
                            Dist(particles[i], tc[best[i]]) <= Dist(particles[i], tc[k])

\* C10: step, set_mouse, resize and update_render_buffer leave every
\* particle's target and is_forming flag alone, and no call changes the
\* number of particles.
C10_AssignmentFrame ==
    [][/\ Len(particles') = Len(particles)
       /\ (Step \/ SetMouse \/ Resize \/ UpdateRenderBuffer)
             => AssignmentOf(particles') = AssignmentOf(particles)]_vars

\* A forming particle that a step() has moved.
C10_Witness ==
    /\ steps >= 1
    /\ \E i \in Forming :
          /\ particles[i].vx # 0
          /\ Target(particles[i]) \in {text_coords[j] : j \in 1..Len(text_coords)}

====
